---- MODULE Spec2Model ----
(***************************************************************************)
(* wtf.analysis.db.ZoneIndex (src/src/wtf/analysis/db/zoneindex.js): the   *)
(* per-zone event index that builds the scope tree while events stream in, *)
(* and repairs it for out-of-order events at the end of each batch.        *)
(*                                                                         *)
(* Objects are modelled by identity: an event is its index in `events`     *)
(* (the order in which the index first saw it), and the Scope a ScopeEvent *)
(* owns has the id of that event.  EventList and Scope are not part of the *)
(* sources at hand; their operations follow spec.md 4.1 and 4.2.           *)
(*                                                                         *)
(* wtf.ui.PaintContext (src/src/wtf/ui/paintcontext.js): a tree of paint  *)
(* contexts over one canvas, repainted from the root on request.  A        *)
(* context is its index in `parentContext` (the order of construction).    *)
(***************************************************************************)
EXTENDS Integers, Sequences, FiniteSets, TLC

\* ---------------------------------------------------------------- bounds
MaxTime == 2
MaxEvents == 3
\* Longer batches over more timestamps (two nested or consecutive scopes).
DeepMaxTime == 3
DeepMaxEvents == 4
\* A wider time range (timestamps up to 5).
WideMaxTime == 5
WideMaxEvents == 3
\* Long pending lists over two timestamps (one event in order, four deferred).
PendMaxTime == 1
PendMaxEvents == 5
\* Paint contexts constructed, and canvas heights tried.
MaxContexts == 3
MaxHeight == 2

\* --------------------------------------------------------------- values
\* null: no scope / no event.  Ids start at 1.
Null == 0

\* The zone the index was constructed for, and some other zone.
Zone == "Z"
OtherZone == "Y"
Zones == {Zone, OtherZone}

\* e instanceof ScopeEvent ("enter"), e.eventType == scopeLeave ("leave"),
\* anything else ("leaf").
Kinds == {"enter", "leave", "leaf"}

\* The events the upstream source can hand to insertEvent.
EventInputs(maxTime) ==
  [zone : Zones, time : 0..maxTime, kind : Kinds]

VARIABLES
  events,            \* the Event objects the index has taken in, by id
  parent,            \* Scope.parent_, by scope id
  children,          \* Scope.children_, by scope id
  leaveEvent,        \* Scope.leaveEvent_, by scope id
  list,              \* EventList.events_: event ids in storage order
  inserting,         \* EventList: inside a beginInserting/endInserting block
  currentScope,      \* ZoneIndex.currentScope_
  lastAddEventTime,  \* ZoneIndex.lastAddEventTime_
  pending,           \* ZoneIndex.pendingOutOfOrderEvents_
  batch,             \* number of the running batch (empty ones not counted)
  call,              \* the most recent call on the index
  log,               \* the effects of the most recent call, in program order
  parentContext,     \* PaintContext.parentContext_, by context id
  childContexts,     \* PaintContext.childContexts_, by context id
  repaintPending,    \* PaintContext.repaintPending_, by context id
  ready,             \* PaintContext.ready_, by context id
  frameQueue,        \* callbacks handed to deferToNextFrame, not yet run
  pcall,             \* the most recent call on a paint context
  paintLog           \* the effects of that call, in program order

paintVars == <<parentContext, childContexts, repaintPending, ready,
               frameQueue, pcall, paintLog>>

vars == <<events, parent, children, leaveEvent, list, inserting, currentScope,
          lastAddEventTime, pending, batch, call, log, parentContext,
          childContexts, repaintPending, ready, frameQueue, pcall, paintLog>>

\* The state as one record, so that a handler is a function of the state.
St ==
  [events |-> events, parent |-> parent, children |-> children,
   leaveEvent |-> leaveEvent, list |-> list, inserting |-> inserting,
   currentScope |-> currentScope, lastAddEventTime |-> lastAddEventTime,
   pending |-> pending, batch |-> batch, log |-> log]

Apply(r) ==
  /\ events' = r.events
  /\ parent' = r.parent
  /\ children' = r.children
  /\ leaveEvent' = r.leaveEvent
  /\ list' = r.list
  /\ inserting' = r.inserting
  /\ currentScope' = r.currentScope
  /\ lastAddEventTime' = r.lastAddEventTime
  /\ pending' = r.pending
  /\ batch' = r.batch
  /\ log' = r.log
  /\ UNCHANGED paintVars

\* One effect of the running call, appended in program order.
Log(s, what) == [s EXCEPT !.log = Append(@, what)]

\* ------------------------------------------------- Event, Scope (spec 3, 4.2)
\* A new Event enters the model when the index first takes it in.  A
\* ScopeEvent owns a freshly created Scope (same id); other events start
\* with no scope.  `batch` and `deferred` record how the index handled it.
NewEvent(s, e) ==
  LET id == Len(s.events) + 1 IN
  [s EXCEPT
     !.events = Append(@, [zone |-> e.zone, time |-> e.time, kind |-> e.kind,
                           scope |-> IF e.kind = "enter" THEN id ELSE Null,
                           batch |-> s.batch, deferred |-> FALSE]),
     !.parent = Append(@, Null),
     !.children = Append(@, <<>>),
     !.leaveEvent = Append(@, Null)]

IsScopeEvent(s, id) == s.events[id].kind = "enter"

IsScopeLeave(s, id) == s.events[id].kind = "leave"

\* Event.setScope
SetScope(s, id, sc) == Log([s EXCEPT !.events[id].scope = sc], "setScope")

\* Scope.addChild: append to the child sequence, set the back-reference.
AddChild(s, p, c) ==
  Log([s EXCEPT !.children[p] = Append(@, c), !.parent[c] = p], "addChild")

\* Scope.setLeaveEvent
SetLeaveEvent(s, sc, id) ==
  Log([s EXCEPT !.leaveEvent[sc] = id], "setLeaveEvent")

\* Scope.getParent
GetParent(s, sc) == s.parent[sc]

\* ------------------------------------------------------ EventList (spec 4.1)
BaseBeginInserting(s) ==
  Log([s EXCEPT !.inserting = TRUE], "base.beginInserting")

BaseInsertEvent(s, id) ==
  Log([s EXCEPT !.list = Append(@, id)], "base.insertEvent")

\* Stable insertion of id into a time-ordered sequence.
InsertByTime(s, sorted, id) ==
  LET before == {i \in 1..Len(sorted) :
                   s.events[sorted[i]].time <= s.events[id].time}
      k == IF before = {} THEN 0
           ELSE CHOOSE i \in before : \A j \in before : j <= i
  IN SubSeq(sorted, 1, k) \o <<id>> \o SubSeq(sorted, k + 1, Len(sorted))

RECURSIVE SortByTime(_, _)
SortByTime(s, seq) ==
  IF seq = <<>> THEN <<>>
  ELSE InsertByTime(s, SortByTime(s, SubSeq(seq, 1, Len(seq) - 1)),
                    seq[Len(seq)])

\* Finalize the batch: the list is time-ordered again.
BaseEndInserting(s) ==
  Log([s EXCEPT !.inserting = FALSE, !.list = SortByTime(s, s.list)],
      "base.endInserting")

\* Last event time of the list (0 for an empty list).
GetLastEventTime(s) ==
  IF s.list = <<>> THEN 0
  ELSE LET ts == {s.events[s.list[i]].time : i \in 1..Len(s.list)}
       IN CHOOSE t \in ts : \A u \in ts : u <= t

\* Whether scope sc spans time t: entered at or before t, not left before t.
ScopeSpans(s, sc, t) ==
  /\ s.events[sc].time <= t
  /\ \/ s.leaveEvent[sc] = Null
     \/ s.events[s.leaveEvent[sc]].time >= t

\* The innermost scope of the tree built so far that encloses time t, or
\* Null.  `notYet` are the events still waiting in the pending list, whose
\* scopes are not part of the tree yet.
FindEnclosingScope(s, t, notYet) ==
  LET cands == {sc \in 1..Len(s.events) :
                  /\ s.events[sc].kind = "enter"
                  /\ sc \notin notYet
                  /\ \E i \in 1..Len(s.list) : s.list[i] = sc
                  /\ ScopeSpans(s, sc, t)}
      Inner(a, b) == \/ s.events[a].time > s.events[b].time
                     \/ s.events[a].time = s.events[b].time /\ a >= b
  IN IF cands = {} THEN Null
     ELSE CHOOSE sc \in cands : \A o \in cands : Inner(sc, o)

\* ------------------------------------------------------------ ZoneIndex
\* ZoneIndex.prototype.beginInserting with the base call moved to the end.
BeginInsertingBaseLast(s) ==
  LET s1 == Log([s EXCEPT !.currentScope = Null], "currentScope")
      s2 == Log([s1 EXCEPT !.lastAddEventTime = GetLastEventTime(s1)],
                "lastAddEventTime")
  IN BaseBeginInserting(s2)

\* ZoneIndex.prototype.beginInserting
BeginInsertingOp(s) ==
  LET s1 == BaseBeginInserting(s)
      s2 == Log([s1 EXCEPT !.currentScope = Null], "currentScope")
  IN Log([s2 EXCEPT !.lastAddEventTime = GetLastEventTime(s2)],
         "lastAddEventTime")

\* The zone test dropped: every event is taken in.
ZoneMatchesAlways(e) == TRUE

\* if (e.zone == this.zone_)
ZoneMatches(e) == e.zone = Zone

\* The boundary test with <= : an event at the boundary time is deferred.
IsOutOfOrderOrEqual(s, id) == s.events[id].time <= s.lastAddEventTime

\* if (e.time < this.lastAddEventTime_)
IsOutOfOrder(s, id) == s.events[id].time < s.lastAddEventTime

\* Deferring that also drops the open scope.
DeferEventClearsCurrentScope(s, id) ==
  Log([s EXCEPT !.pending = Append(@, id), !.events[id].deferred = TRUE,
                !.currentScope = Null],
      "pending.push")

\* this.pendingOutOfOrderEvents_.push(e)
DeferEvent(s, id) ==
  Log([s EXCEPT !.pending = Append(@, id), !.events[id].deferred = TRUE],
      "pending.push")

\* this.lastAddEventTime_ = e.time
SetLastAddEventTime(s, id) ==
  Log([s EXCEPT !.lastAddEventTime = s.events[id].time], "lastAddEventTime")

\* In-order scope enter: child of the open scope, then the open scope.
EnterInOrder(s, id) ==
  LET s1 == IF s.currentScope # Null
            THEN AddChild(s, s.currentScope, s.events[id].scope)
            ELSE s
  IN Log([s1 EXCEPT !.currentScope = s.events[id].scope], "currentScope")

\* In-order leave that clears the cursor instead of moving to the parent.
LeaveInOrderNoWalkUp(s, id) ==
  LET s1 == SetScope(s, id, s.currentScope) IN
  IF s1.currentScope # Null
  THEN Log([SetLeaveEvent(s1, s1.currentScope, id) EXCEPT
              !.currentScope = Null], "currentScope")
  ELSE s1

\* In-order leave that records the leave event but keeps the scope open.
LeaveInOrderNoPop(s, id) ==
  LET s1 == SetScope(s, id, s.currentScope) IN
  IF s1.currentScope # Null
  THEN SetLeaveEvent(s1, s1.currentScope, id)
  ELSE s1

\* In-order leave that queues an unmatched leave for the end of the batch.
LeaveInOrderDefersUnmatched(s, id) ==
  LET s1 == SetScope(s, id, s.currentScope) IN
  IF s1.currentScope # Null
  THEN LET s2 == SetLeaveEvent(s1, s1.currentScope, id) IN
       Log([s2 EXCEPT !.currentScope = GetParent(s2, s2.currentScope)],
           "currentScope")
  ELSE Log([s1 EXCEPT !.pending = Append(@, id)], "pending.push")

\* In-order scope leave: leaves the current scope, if any.
LeaveInOrder(s, id) ==
  LET s1 == SetScope(s, id, s.currentScope) IN
  IF s1.currentScope # Null
  THEN LET s2 == SetLeaveEvent(s1, s1.currentScope, id) IN
       Log([s2 EXCEPT !.currentScope = GetParent(s2, s2.currentScope)],
           "currentScope")
  ELSE s1

\* In-order leaf attached to the parent of the open scope.
LeafInOrderToParent(s, id) ==
  IF s.currentScope # Null
  THEN SetScope(s, id, GetParent(s, s.currentScope))
  ELSE s

\* In-order leaf: attach the event to the current scope.
LeafInOrder(s, id) ==
  IF s.currentScope # Null THEN SetScope(s, id, s.currentScope) ELSE s

\* The in-order branch of insertEvent.
InOrderEvent(s, id) ==
  LET s1 == SetLastAddEventTime(s, id) IN
  IF IsScopeEvent(s1, id) THEN EnterInOrder(s1, id)
  ELSE IF IsScopeLeave(s1, id) THEN LeaveInOrder(s1, id)
  ELSE LeafInOrder(s1, id)

\* ZoneIndex.prototype.insertEvent
InsertEventOp(s, e) ==
  IF ZoneMatches(e)
  THEN LET s0 == NewEvent(s, e)
           id == Len(s0.events)
           s1 == IF IsOutOfOrder(s0, id) THEN DeferEvent(s0, id)
                 ELSE InOrderEvent(s0, id)
       IN BaseInsertEvent(s1, id)
  ELSE s

\* this.currentScope_ = null, forgotten.
ResetCurrentScopeSkipped(s) == s

\* this.currentScope_ = null
ResetCurrentScope(s) == Log([s EXCEPT !.currentScope = Null], "currentScope")

\* One iteration of the loop over the pending list: event n, local cursor
\* cur.  Gives the new state and the new cursor.
PendingStepOf(s, n, cur) ==
  LET id == s.pending[n] IN
  IF IsScopeEvent(s, id)
  THEN LET notYet == {s.pending[k] : k \in n..Len(s.pending)}
           parentScope == FindEnclosingScope(s, s.events[id].time, notYet)
           s1 == IF parentScope # Null
                 THEN AddChild(s, parentScope, s.events[id].scope)
                 ELSE s
       IN [s |-> s1, cur |-> s.events[id].scope]
  ELSE IF IsScopeLeave(s, id)
  THEN LET s1 == SetScope(s, id, cur) IN
       IF cur # Null
       THEN [s |-> SetLeaveEvent(s1, cur, id), cur |-> Null]
       ELSE [s |-> s1, cur |-> cur]
  ELSE [s |-> SetScope(s, id, cur), cur |-> cur]

\* The loop body with a walk-up: a leave moves the cursor to the parent of
\* the scope it closes.
PendingStepWalksUp(s, n, cur) ==
  LET r == PendingStepOf(s, n, cur) IN
  IF IsScopeLeave(s, s.pending[n]) /\ cur # Null
  THEN [s |-> r.s, cur |-> GetParent(r.s, cur)]
  ELSE r

\* The loop body with the local cursor, when set, taken as the parent of a
\* deferred scope enter.
PendingStepCursorAsParent(s, n, cur) ==
  LET id == s.pending[n] IN
  IF IsScopeEvent(s, id) /\ cur # Null
  THEN [s |-> AddChild(s, cur, s.events[id].scope),
        cur |-> s.events[id].scope]
  ELSE PendingStepOf(s, n, cur)

\* The loop body with a deferred leave that finds no cursor resolved by time.
PendingStepLeaveLooksUp(s, n, cur) ==
  LET id == s.pending[n] IN
  IF IsScopeLeave(s, id) /\ cur = Null
  THEN LET notYet == {s.pending[k] : k \in n..Len(s.pending)}
           found == FindEnclosingScope(s, s.events[id].time, notYet)
           s1 == SetScope(s, id, found)
       IN [s |-> IF found # Null THEN SetLeaveEvent(s1, found, id) ELSE s1,
           cur |-> Null]
  ELSE PendingStepOf(s, n, cur)

\* The loop body followed by a second base insert of the drained event.
PendingStepReinserts(s, n, cur) ==
  LET r == PendingStepOf(s, n, cur) IN
  [s |-> BaseInsertEvent(r.s, s.pending[n]), cur |-> r.cur]

\* The body of the loop of endInserting.
PendingStep(s, n, cur) == PendingStepOf(s, n, cur)

\* for (n = 0; n < pendingOutOfOrderEvents_.length; n++)
RECURSIVE ProcessPending(_, _, _)
ProcessPending(s, n, cur) ==
  IF n > Len(s.pending) THEN s
  ELSE LET r == PendingStep(s, n, cur) IN ProcessPending(r.s, n + 1, r.cur)

\* this.pendingOutOfOrderEvents_.length = 0
ClearPending(s) == Log([s EXCEPT !.pending = <<>>], "pending.clear")

\* endInserting with the loop's cursor starting at the open scope.
EndInsertingCursorFromMain(s) ==
  LET s1 == ResetCurrentScope(s)
      s2 == ProcessPending(s1, 1, s.currentScope)
      s3 == ClearPending(s2)
  IN BaseEndInserting(s3)

\* ZoneIndex.prototype.endInserting
EndInsertingOp(s) ==
  LET s1 == ResetCurrentScope(s)
      s2 == ProcessPending(s1, 1, Null)
      s3 == ClearPending(s2)
  IN BaseEndInserting(s3)

\* ----------------------------------------------------------------- actions
\* The constructor: nothing indexed, no batch open.
Init ==
  /\ events = <<>>
  /\ parent = <<>>
  /\ children = <<>>
  /\ leaveEvent = <<>>
  /\ list = <<>>
  /\ inserting = FALSE
  /\ currentScope = Null
  /\ lastAddEventTime = 0
  /\ pending = <<>>
  /\ batch = 0
  /\ call = [op |-> "new", zone |-> Zone, run |-> 0]
  /\ log = <<>>
  /\ parentContext = <<>>
  /\ childContexts = <<>>
  /\ repaintPending = <<>>
  /\ ready = <<>>
  /\ frameQueue = <<>>
  /\ pcall = [op |-> "none", ctx |-> Null, prevent |-> FALSE]
  /\ paintLog = <<>>

\* Whether the running batch has taken in an event.
BatchUsed == \E i \in 1..Len(events) : events[i].batch = batch

BeginInserting ==
  /\ ~inserting
  /\ Apply(BeginInsertingOp(
             [St EXCEPT !.log = <<>>,
                        !.batch = IF @ = 0 \/ BatchUsed THEN @ + 1 ELSE @]))
  /\ call' = [op |-> "beginInserting", zone |-> Zone, run |-> 0]

\* How many insertEvent calls for another zone ended the call history: none,
\* one, or two and more.
FilteredRun == IF call.op = "insertEvent" /\ call.zone # Zone THEN call.run ELSE 0

InsertEvent(e, maxEvents) ==
  /\ inserting
  /\ e.zone = Zone => Len(events) < maxEvents
  /\ Apply(InsertEventOp([St EXCEPT !.log = <<>>], e))
  /\ call' = [op |-> "insertEvent", zone |-> e.zone,
              run |-> IF e.zone = Zone THEN 0
                      ELSE IF FilteredRun = 0 THEN 1 ELSE 2]

EndInserting ==
  /\ inserting
  /\ Apply(EndInsertingOp([St EXCEPT !.log = <<>>]))
  /\ call' = [op |-> "endInserting", zone |-> Zone, run |-> 0]

Next ==
  \/ BeginInserting
  \/ \E e \in EventInputs(MaxTime) : InsertEvent(e, MaxEvents)
  \/ EndInserting

Spec == Init /\ [][Next]_vars

NextDeep ==
  \/ BeginInserting
  \/ \E e \in EventInputs(DeepMaxTime) : InsertEvent(e, DeepMaxEvents)
  \/ EndInserting

SpecDeep == Init /\ [][NextDeep]_vars

NextWide ==
  \/ BeginInserting
  \/ \E e \in EventInputs(WideMaxTime) : InsertEvent(e, WideMaxEvents)
  \/ EndInserting

SpecWide == Init /\ [][NextWide]_vars

NextPend ==
  \/ BeginInserting
  \/ \E e \in EventInputs(PendMaxTime) : InsertEvent(e, PendMaxEvents)
  \/ EndInserting

SpecPend == Init /\ [][NextPend]_vars

\* --------------------------------------------------------- PaintContext
\* The paint state as one record.
Pt ==
  [parentContext |-> parentContext, childContexts |-> childContexts,
   repaintPending |-> repaintPending, ready |-> ready,
   frameQueue |-> frameQueue, paintLog |-> paintLog]

ApplyPaint(r) ==
  /\ parentContext' = r.parentContext
  /\ childContexts' = r.childContexts
  /\ repaintPending' = r.repaintPending
  /\ ready' = r.ready
  /\ frameQueue' = r.frameQueue
  /\ paintLog' = r.paintLog

zoneVars == <<events, parent, children, leaveEvent, list, inserting,
              currentScope, lastAddEventTime, pending, batch, call, log>>

\* One effect of the running call on context c.
PaintEffect(p, what, c) == [p EXCEPT !.paintLog = Append(@, <<what, c>>)]

\* The PaintContext constructor; par is opt_parentContext or Null.
NewContextOp(p, par) ==
  LET id == Len(p.parentContext) + 1
      p1 == [p EXCEPT !.parentContext = Append(@, par),
                      !.childContexts = Append(@, <<>>),
                      !.repaintPending = Append(@, FALSE),
                      !.ready = Append(@, TRUE)]
  IN IF par # Null
     THEN [p1 EXCEPT !.childContexts[par] = Append(@, id)]
     ELSE p1

\* wtf.timing.deferToNextFrame(callback, scope): the callback of context c
\* runs once, at the next frame.
DeferToNextFrame(p, c) ==
  PaintEffect([p EXCEPT !.frameQueue = Append(@, c)], "deferToNextFrame", c)

\* requestRepaint that schedules a callback on every request.
RECURSIVE RequestRepaintNoCoalesce(_, _)
RequestRepaintNoCoalesce(p, c) ==
  IF p.parentContext[c] # Null
  THEN RequestRepaintNoCoalesce(p, p.parentContext[c])
  ELSE DeferToNextFrame([p EXCEPT !.repaintPending[c] = TRUE], c)

\* PaintContext.prototype.requestRepaint
RECURSIVE RequestRepaintOp(_, _)
RequestRepaintOp(p, c) ==
  IF p.parentContext[c] # Null
  THEN RequestRepaintOp(p, p.parentContext[c])
  ELSE IF ~p.repaintPending[c]
       THEN DeferToNextFrame([p EXCEPT !.repaintPending[c] = TRUE], c)
       ELSE p

\* PaintContext.prototype.setReady
SetReadyOp(p, c, value) ==
  LET p1 == [p EXCEPT !.ready[c] = value] IN
  IF value THEN RequestRepaintOp(p1, c) ELSE p1

\* A call of repaintInternal on context c (a no-op unless overridden).
RepaintInternal(p, c) == PaintEffect(p, "repaintInternal", c)

\* for (n = 0; n < this.childContexts_.length; n++)
\*   childContext.repaintInternal(ctx, width, height)
RECURSIVE RepaintChildren(_, _, _)
RepaintChildren(p, c, n) ==
  IF n > Len(p.childContexts[c]) THEN p
  ELSE RepaintChildren(RepaintInternal(p, p.childContexts[c][n]), c, n + 1)

\* PaintContext.prototype.repaint; height is the canvas height and
\* preventChildren what this context's repaintInternal returns.
RepaintOp(p, c, height, preventChildren) ==
  LET p0 == PaintEffect(p, "repaint", c) IN
  IF p.parentContext[c] # Null THEN p0
  ELSE IF ~p.ready[c] THEN p0
  ELSE IF height <= 1 THEN p0
  ELSE LET p1 == RepaintInternal(p0, c) IN
       IF preventChildren THEN p1
       ELSE RepaintChildren(p1, c, 1)

\* PaintContext.prototype.repaintRequested_
RepaintRequestedOp(p, c, height, preventChildren) ==
  IF p.parentContext[c] # Null \/ ~p.repaintPending[c] THEN p
  ELSE RepaintOp([p EXCEPT !.repaintPending[c] = FALSE], c, height,
                 preventChildren)

Contexts == 1..Len(parentContext)

NewContext(par) ==
  /\ Len(parentContext) < MaxContexts
  /\ ApplyPaint(NewContextOp([Pt EXCEPT !.paintLog = <<>>], par))
  /\ pcall' = [op |-> "new", ctx |-> Len(parentContext) + 1,
               prevent |-> FALSE]
  /\ UNCHANGED zoneVars

SetReady(c, value) ==
  /\ ApplyPaint(SetReadyOp([Pt EXCEPT !.paintLog = <<>>], c, value))
  /\ pcall' = [op |-> IF value THEN "setReady(true)" ELSE "setReady(false)",
               ctx |-> c, prevent |-> FALSE]
  /\ UNCHANGED zoneVars

RequestRepaint(c) ==
  /\ ApplyPaint(RequestRepaintOp([Pt EXCEPT !.paintLog = <<>>], c))
  /\ pcall' = [op |-> "requestRepaint", ctx |-> c, prevent |-> FALSE]
  /\ UNCHANGED zoneVars

Repaint(c, height, preventChildren) ==
  /\ ApplyPaint(RepaintOp([Pt EXCEPT !.paintLog = <<>>], c, height,
                          preventChildren))
  /\ pcall' = [op |-> "repaint", ctx |-> c,
               prevent |-> preventChildren]
  /\ UNCHANGED zoneVars

\* The next frame: the oldest scheduled callback runs.
FrameCallback(height, preventChildren) ==
  /\ frameQueue # <<>>
  /\ ApplyPaint(RepaintRequestedOp(
                  [Pt EXCEPT !.paintLog = <<>>, !.frameQueue = Tail(@)],
                  Head(frameQueue), height, preventChildren))
  /\ pcall' = [op |-> "frame", ctx |-> Head(frameQueue),
               prevent |-> preventChildren]
  /\ UNCHANGED zoneVars

NextPaint ==
  \/ \E par \in {Null} \cup Contexts : NewContext(par)
  \/ \E c \in Contexts, value \in BOOLEAN : SetReady(c, value)
  \/ \E c \in Contexts : RequestRepaint(c)
  \/ \E c \in Contexts, height \in 0..MaxHeight, pv \in BOOLEAN :
       Repaint(c, height, pv)
  \/ \E height \in 0..MaxHeight, pv \in BOOLEAN : FrameCallback(height, pv)

SpecPaint == Init /\ [][NextPaint]_vars

\* ------------------------------------------------------ reading a state
\* The events the index took in during batch b (consecutive ids).
BatchIds(b) == {i \in 1..Len(events) : events[i].batch = b}

Count(seq, x) == Cardinality({i \in 1..Len(seq) : seq[i] = x})

Top(st) == IF st = <<>> THEN Null ELSE st[Len(st)]

\* The reference: an explicit stack of open scopes, replayed over the events
\* of one batch in insertion order.  StackAfter(id) is the stack once event
\* id of its batch has been handled in order.
RECURSIVE StackAfter(_)
StackAfter(id) ==
  LET before == IF id = 1 \/ events[id - 1].batch # events[id].batch
                THEN <<>>
                ELSE StackAfter(id - 1)
  IN CASE events[id].kind = "enter" -> Append(before, id)
       [] events[id].kind = "leave" ->
            IF before = <<>> THEN before
            ELSE SubSeq(before, 1, Len(before) - 1)
       [] OTHER -> before

StackBefore(id) ==
  IF id = 1 \/ events[id - 1].batch # events[id].batch THEN <<>>
  ELSE StackAfter(id - 1)

\* Every event of batch b took the in-order branch.
InOrderBatch(b) == \A i \in BatchIds(b) : ~events[i].deferred

\* Batch b holds only enters and leaves, and no leave finds the stack empty.
ProperlyNested(b) ==
  \A i \in BatchIds(b) :
    /\ events[i].kind \in {"enter", "leave"}
    /\ events[i].kind = "leave" => StackBefore(i) # <<>>

\* ------------------------------------------------------------------ claims

\* C1: insertEvent of an event of another zone changes nothing: the list,
\* currentScope, lastAddEventTime, the pending list, the scope tree and
\* every event are as before, and the call has no effect at all (no setScope
\* on its argument), however often it is repeated.
C1_OtherZoneInsertIsNoOp ==
  [][(call'.op = "insertEvent" /\ call'.zone # Zone) =>
       /\ UNCHANGED <<events, parent, children, leaveEvent, list, inserting,
                      currentScope, lastAddEventTime, pending, batch>>
       /\ log' = <<>>]_vars

\* Two events of another zone in a row, with a scope open and an event
\* waiting in the pending list.
C1_Witness ==
  /\ call.op = "insertEvent" /\ call.zone # Zone /\ call.run = 2
  /\ currentScope # Null
  /\ pending # <<>>

\* C2: after endInserting every event of the zone that was inserted is in
\* the EventList exactly once, in-order or deferred alike.
C2_EachEventOnceInList ==
  call.op = "endInserting" =>
    /\ \A i \in 1..Len(events) :
         events[i].zone = Zone => Count(list, i) = 1
    /\ Len(list) = Len(events)

\* A finished batch with an in-order enter and leave and a deferred event.
C2_Witness ==
  /\ call.op = "endInserting"
  /\ \E i \in BatchIds(batch) : events[i].deferred
  /\ \A k \in {"enter", "leave"} :
       \E i \in BatchIds(batch) : events[i].kind = k /\ ~events[i].deferred

\* C3: right after endInserting the pending list is empty and currentScope
\* is null.
C3_DrainedAndResetAfterEnd ==
  call.op = "endInserting" => pending = <<>> /\ currentScope = Null

\* A batch ended with a scope still open and with a deferred event.
C3_Witness ==
  /\ call.op = "endInserting"
  /\ \E i \in BatchIds(batch) : events[i].deferred
  /\ \E i \in BatchIds(batch) :
       /\ events[i].kind = "enter" /\ ~events[i].deferred
       /\ leaveEvent[i] = Null

\* C4: in a batch of in-order, properly nested enters and leaves, the parent
\* of each scope is the innermost scope open when it was entered (none for
\* the outermost), the scope is in that parent's children once, each leave
\* is attached to the scope it closes, and a scope's leave event is the
\* leave that closes it.
C4_NestedInOrderTree ==
  \A b \in 1..batch :
    (InOrderBatch(b) /\ ProperlyNested(b)) =>
      \A i \in BatchIds(b) :
        /\ events[i].kind = "enter" =>
             /\ parent[i] = Top(StackBefore(i))
             /\ parent[i] # Null => Count(children[parent[i]], i) = 1
             /\ leaveEvent[i] # Null =>
                  /\ leaveEvent[i] \in BatchIds(b)
                  /\ events[leaveEvent[i]].kind = "leave"
                  /\ Top(StackBefore(leaveEvent[i])) = i
        /\ events[i].kind = "leave" =>
             /\ events[i].scope = Top(StackBefore(i))
             /\ leaveEvent[Top(StackBefore(i))] = i

\* enter A, enter B, leave B, leave A.
C4_Witness ==
  /\ Len(events) = 4
  /\ InOrderBatch(events[1].batch)
  /\ BatchIds(events[1].batch) = 1..4
  /\ <<events[1].kind, events[2].kind, events[3].kind, events[4].kind>>
       = <<"enter", "enter", "leave", "leave">>
  /\ parent[1] = Null /\ parent[2] = 1 /\ children[1] = <<2>>
  /\ leaveEvent[2] = 3 /\ leaveEvent[1] = 4

\* The running batch is enter, leave, enter, leave, ... in order, with
\* strictly increasing times.
FlatPairsBatch ==
  /\ batch >= 1
  /\ BatchIds(batch) # {}
  /\ \A i \in BatchIds(batch) :
       /\ ~events[i].deferred
       /\ events[i].kind =
            IF (i - 1) \in BatchIds(batch) /\ events[i - 1].kind = "enter"
            THEN "leave" ELSE "enter"
       /\ (i - 1) \in BatchIds(batch) => events[i - 1].time < events[i].time

\* C5: N in-order enter/leave pairs with strictly increasing times give N
\* scopes with no parent and no children, each with its own leave as leave
\* event, and currentScope is null after each leave.
C5_FlatPairs ==
  FlatPairsBatch =>
    /\ \A i \in BatchIds(batch) :
         events[i].kind = "enter" =>
           /\ parent[i] = Null
           /\ children[i] = <<>>
           /\ leaveEvent[i] = IF (i + 1) \in BatchIds(batch) THEN i + 1
                              ELSE Null
           /\ (i + 1) \in BatchIds(batch) => events[i + 1].scope = i
    /\ events[Len(events)].kind = "leave" => currentScope = Null

\* Two pairs, the batch still open.
C5_Witness ==
  /\ FlatPairsBatch
  /\ Cardinality(BatchIds(batch)) = 4
  /\ inserting

\* C6: an in-order leave inserted while no scope is open is appended to the
\* list and associated with no scope; no scope's parent, children or leave
\* event changes, currentScope stays null and nothing is deferred, so what
\* follows sees the scope state it would have seen without it.
C6_UnmatchedLeaveIgnored ==
  [][(/\ Len(events') = Len(events) + 1
      /\ events'[Len(events')].zone = Zone
      /\ events'[Len(events')].kind = "leave"
      /\ events'[Len(events')].time >= lastAddEventTime
      /\ currentScope = Null) =>
       /\ list' = Append(list, Len(events'))
       /\ events'[Len(events')].scope = Null
       /\ SubSeq(events', 1, Len(events)) = events
       /\ parent' = Append(parent, Null)
       /\ children' = Append(children, <<>>)
       /\ leaveEvent' = Append(leaveEvent, Null)
       /\ currentScope' = Null
       /\ pending' = pending]_vars

\* An unmatched in-order leave was just inserted, after a scope was opened
\* and closed.
C6_Witness ==
  /\ call.op = "insertEvent" /\ call.zone = Zone
  /\ Len(events) >= 3
  /\ events[Len(events)].kind = "leave"
  /\ ~events[Len(events)].deferred
  /\ events[Len(events)].scope = Null
  /\ StackBefore(Len(events)) = <<>>
  /\ \E i \in BatchIds(batch) : leaveEvent[i] # Null

\* The deferred events of the batch that just ended.
DeferredIds(b) == {i \in BatchIds(b) : events[i].deferred}

\* The innermost scope spanning the time of event d, d's own scope aside.
EnclosingScopeOf(d) == FindEnclosingScope(St, events[d].time, {d})

\* C7: a single out-of-order event of a batch, whatever its kind, is after
\* endInserting attached to the scope that encloses its timestamp when there
\* is one (a deferred enter as that scope's child, a deferred leave or leaf
\* by its scope), and unassociated otherwise.
C7_SingleDeferredAttached ==
  (call.op = "endInserting" /\ Cardinality(DeferredIds(batch)) = 1) =>
    \A d \in DeferredIds(batch) :
      IF events[d].kind = "enter"
      THEN parent[d] = EnclosingScopeOf(d)
      ELSE events[d].scope = EnclosingScopeOf(d)

\* The batch [enter(t=0,A), enter(t=5,B), leave(t=2)] on an empty index.
IsBatchC8 ==
  /\ Len(events) = 3
  /\ BatchIds(batch) = 1..3
  /\ <<events[1].kind, events[2].kind, events[3].kind>>
       = <<"enter", "enter", "leave">>
  /\ <<events[1].time, events[2].time, events[3].time>> = <<0, 5, 2>>

\* C8: in the batch [enter(t=0,A), enter(t=5,B), leave(t=2)] the leave is
\* deferred, closes nothing and does not move currentScope while the batch
\* is open, and after endInserting its scope is A and A's leave event is
\* that leave.
C8_DeferredLeaveResolvedToA ==
  IsBatchC8 =>
    /\ events[3].deferred
    /\ leaveEvent[2] = Null
    /\ inserting => (currentScope = 2 /\ pending = <<3>>)
    /\ call.op = "endInserting" => (events[3].scope = 1 /\ leaveEvent[1] = 3)

\* The batch [enter(t=0,A), leaf(t=1), leave(t=2)], finished.
IsBatchC9 ==
  /\ call.op = "endInserting"
  /\ Len(events) = 3
  /\ BatchIds(batch) = 1..3
  /\ <<events[1].kind, events[2].kind, events[3].kind>>
       = <<"enter", "leaf", "leave">>
  /\ <<events[1].time, events[2].time, events[3].time>> = <<0, 1, 2>>

ResultC9 ==
  /\ parent[1] = Null /\ children[1] = <<>> /\ leaveEvent[1] = 3
  /\ events[2].scope = 1
  /\ events[3].scope = 1
  /\ DeferredIds(batch) = {}

\* C9: an in-order leaf is associated with currentScope, or with nothing
\* when no scope is open, and changes neither currentScope nor any scope's
\* parent, children or leave event; the batch [enter(t=0,A), leaf(t=1),
\* leave(t=2)] gives one top-level scope A closed by the leave, the leaf
\* associated with A, nothing deferred.
C9_InOrderLeaf ==
  [][/\ (/\ Len(events') = Len(events) + 1
         /\ events'[Len(events')].zone = Zone
         /\ events'[Len(events')].kind = "leaf"
         /\ events'[Len(events')].time >= lastAddEventTime) =>
          /\ events'[Len(events')].scope = currentScope
          /\ SubSeq(events', 1, Len(events)) = events
          /\ currentScope' = currentScope
          /\ parent' = Append(parent, Null)
          /\ children' = Append(children, <<>>)
          /\ leaveEvent' = Append(leaveEvent, Null)
          /\ pending' = pending
     /\ IsBatchC9' => ResultC9']_vars

C9_Witness == IsBatchC9 /\ ResultC9

\* The base calls among the effects of the last call.
BaseCalls ==
  {i \in 1..Len(log) :
     log[i] \in {"base.beginInserting", "base.insertEvent", "base.endInserting"}}

IsIndexCall == call.op \in {"beginInserting", "insertEvent", "endInserting"}

\* C10 as stated: every call of beginInserting, insertEvent and endInserting
\* makes exactly one call of the base operation, and makes it after its own
\* work.
C10_BaseCalledOnceAndLast ==
  IsIndexCall =>
    /\ Cardinality(BaseCalls) = 1
    /\ Len(log) >= 2
    /\ BaseCalls = {Len(log)}
    /\ log[Len(log)] = "base." \o call.op

\* C10 amended: beginInserting calls the base first and then resets
\* currentScope and sets lastAddEventTime; insertEvent calls the base once,
\* after classifying or deferring, for an event of its zone and not at all
\* for another zone's; endInserting calls the base once, after draining the
\* pending list.
C10_BaseCallOrder ==
  /\ call.op = "beginInserting" =>
       log = <<"base.beginInserting", "currentScope", "lastAddEventTime">>
  /\ (call.op = "insertEvent" /\ call.zone = Zone) =>
       /\ Len(log) >= 2
       /\ BaseCalls = {Len(log)}
       /\ log[Len(log)] = "base.insertEvent"
  /\ (call.op = "insertEvent" /\ call.zone # Zone) => log = <<>>
  /\ call.op = "endInserting" =>
       /\ Len(log) >= 3
       /\ BaseCalls = {Len(log)}
       /\ log[Len(log)] = "base.endInserting"
       /\ log[Len(log) - 1] = "pending.clear"

\* A second batch begins on a list that holds events.
C10_Witness ==
  /\ call.op = "beginInserting"
  /\ batch = 2
  /\ list # <<>>
  /\ lastAddEventTime > 0

\* Event i and its scope are as they were constructed: the event's scope is
\* its own for a ScopeEvent and none otherwise, the scope has no parent, no
\* children and no leave event.
Untouched(s, i) ==
  /\ s.events[i].scope = IF s.events[i].kind = "enter" THEN i ELSE Null
  /\ s.parent[i] = Null /\ s.children[i] = <<>> /\ s.leaveEvent[i] = Null

\* C11: insertEvent of an event of the zone whose time is below
\* lastAddEventTime appends it to the end of the pending list and changes
\* neither currentScope nor lastAddEventTime nor any event's scope nor any
\* scope's parent, children or leave event, whatever its kind; the event and
\* its scope stay untouched as long as it waits in the pending list.
C11_DeferLeavesTreeAlone ==
  [][/\ (/\ Len(events') = Len(events) + 1
         /\ events'[Len(events')].zone = Zone
         /\ events'[Len(events')].time < lastAddEventTime) =>
          /\ pending' = Append(pending, Len(events'))
          /\ currentScope' = currentScope
          /\ lastAddEventTime' = lastAddEventTime
          /\ SubSeq(events', 1, Len(events)) = events
          /\ parent' = Append(parent, Null)
          /\ children' = Append(children, <<>>)
          /\ leaveEvent' = Append(leaveEvent, Null)
          /\ log' = <<"pending.push", "base.insertEvent">>
     /\ \A n \in 1..Len(pending') : Untouched(St', pending'[n])]_vars

\* A leave was just deferred while a scope is open, behind a deferred enter
\* or leaf.
C11_Witness ==
  /\ call.op = "insertEvent" /\ call.zone = Zone
  /\ Len(pending) >= 2
  /\ pending[Len(pending)] = Len(events)
  /\ events[Len(events)].kind = "leave"
  /\ currentScope # Null

\* The largest of a set of times and a floor.
MaxOf(floor, ts) ==
  LET all == ts \cup {floor} IN CHOOSE t \in all : \A u \in all : u <= t

\* What lastAddEventTime has to be in the running batch: the last event time
\* of the list when the batch began, or the largest time of the events of
\* the batch handled in order, whichever is larger.
BoundaryTime ==
  MaxOf(MaxOf(0, {events[i].time : i \in {j \in 1..Len(events) :
                                           events[j].batch # batch}}),
        {events[i].time : i \in {j \in BatchIds(batch) :
                                   \A n \in 1..Len(pending) : pending[n] # j}})

\* C12: within a batch lastAddEventTime never decreases and is the larger of
\* the list's last event time at beginInserting and the times of the events
\* handled in order so far; an event is deferred exactly when its time is
\* strictly below it (equal time is in order), and a deferred event does
\* not change it.
C12_BoundaryIsRunningMax ==
  [][/\ inserting' => lastAddEventTime' = BoundaryTime'
     /\ (inserting /\ inserting') => lastAddEventTime' >= lastAddEventTime
     /\ (Len(events') = Len(events) + 1) =>
          LET id == Len(events') IN
          /\ (\E n \in 1..Len(pending') : pending'[n] = id)
               <=> events'[id].time < lastAddEventTime
          /\ events'[id].time < lastAddEventTime =>
               lastAddEventTime' = lastAddEventTime
          /\ events'[id].time >= lastAddEventTime =>
               lastAddEventTime' = events'[id].time]_vars

\* A second batch on a list that ends above 0: one event at the boundary
\* time went in order, one below it was deferred.
C12_Witness ==
  /\ inserting
  /\ \E i \in 1..Len(events) : events[i].batch # batch /\ events[i].time > 0
  /\ \E i \in BatchIds(batch) :
       /\ ~events[i].deferred
       /\ events[i].time = MaxOf(0, {events[j].time : j \in 1..(i - 1)})
  /\ pending # <<>>

\* C13: while the events of the running batch all went in order,
\* currentScope is the top of the explicit stack of open scopes (push on
\* enter, pop on a leave when not empty, untouched by a leave on the empty
\* stack and by a leaf), null when the stack is empty.
C13_CursorIsStackTop ==
  (inserting /\ InOrderBatch(batch)) =>
    currentScope = IF BatchIds(batch) = {} THEN Null
                   ELSE Top(StackAfter(Len(events)))

\* enter, enter, leave: the cursor is back on the outer scope.
C13_Witness ==
  /\ inserting /\ InOrderBatch(batch)
  /\ BatchIds(batch) = 1..3
  /\ <<events[1].kind, events[2].kind, events[3].kind>>
       = <<"enter", "enter", "leave">>
  /\ currentScope = 1

\* The reference for the pass over the pending list: a cursor replayed over
\* the deferred events of one batch in the order they were deferred.  It
\* starts at null, a deferred enter sets it, a deferred leave clears it.
RECURSIVE CursorAfter(_)
CursorAfter(id) ==
  LET before == IF id = 1 \/ events[id - 1].batch # events[id].batch
                THEN Null
                ELSE CursorAfter(id - 1)
  IN IF ~events[id].deferred THEN before
     ELSE CASE events[id].kind = "enter" -> id
            [] events[id].kind = "leave" -> Null
            [] OTHER -> before

CursorBefore(id) ==
  IF id = 1 \/ events[id - 1].batch # events[id].batch THEN Null
  ELSE CursorAfter(id - 1)

\* Event i was deferred and its batch has ended.
Drained(i) ==
  /\ events[i].deferred
  /\ \A n \in 1..Len(pending) : pending[n] # i

\* C14: endInserting handles the deferred events in the order they were
\* deferred, not by time, with a cursor of its own that starts at null: the
\* scope of every deferred leave and leaf is the one the replay in deferral
\* order gives, whatever currentScope was when the batch ended.
C14_PassInDeferralOrder ==
  \A i \in 1..Len(events) :
    (Drained(i) /\ events[i].kind # "enter") =>
      events[i].scope = CursorBefore(i)

\* A batch ended with a scope open; a leaf was deferred before an enter of
\* an earlier time, and stays without scope.
C14_Witness ==
  /\ call.op = "endInserting"
  /\ \E o \in BatchIds(batch) :
       events[o].kind = "enter" /\ ~events[o].deferred /\ leaveEvent[o] = Null
  /\ \E i, j \in DeferredIds(batch) :
       /\ i < j
       /\ events[i].kind = "leaf" /\ events[j].kind = "enter"
       /\ events[j].time < events[i].time
       /\ events[i].scope = Null

\* The deferred events of the batch of event i, first deferred first, as a
\* sequence of ids.
RECURSIVE DeferredUpTo(_, _)
DeferredUpTo(b, id) ==
  IF id = 0 THEN <<>>
  ELSE IF events[id].batch = b /\ events[id].deferred
       THEN Append(DeferredUpTo(b, id - 1), id)
       ELSE DeferredUpTo(b, id - 1)

DeferredSeq(b) == DeferredUpTo(b, Len(events))

\* C15: in the pass over the pending list a deferred leave is associated
\* with the cursor of the pass, becomes the leave event of that scope when
\* there is one, and clears the cursor without walking up to the parent.
\* For the deferred sequence enter X, enter Y, leave L1, leave L2: L1 closes
\* Y, L2 is associated with no scope, and X is left without a leave event.
C15_DeferredLeaveClosesCursorOnly ==
  /\ \A d \in 1..Len(events) :
       (Drained(d) /\ events[d].kind = "leave") =>
         /\ events[d].scope = CursorBefore(d)
         /\ CursorBefore(d) # Null => leaveEvent[CursorBefore(d)] = d
         /\ \A x \in 1..Len(events) :
              leaveEvent[x] = d => x = CursorBefore(d)
  /\ \A b \in 1..batch :
       LET ds == DeferredSeq(b) IN
       (/\ Len(ds) = 4 /\ Drained(ds[1])
        /\ <<events[ds[1]].kind, events[ds[2]].kind,
             events[ds[3]].kind, events[ds[4]].kind>>
             = <<"enter", "enter", "leave", "leave">>) =>
         /\ events[ds[3]].scope = ds[2] /\ leaveEvent[ds[2]] = ds[3]
         /\ events[ds[4]].scope = Null
         /\ leaveEvent[ds[1]] = Null

\* endInserting has drained enter X, enter Y, leave L1, leave L2, and Y was
\* attached below X.
C15_Witness ==
  /\ call.op = "endInserting"
  /\ LET ds == DeferredSeq(batch) IN
     /\ Len(ds) = 4
     /\ <<events[ds[1]].kind, events[ds[2]].kind,
          events[ds[3]].kind, events[ds[4]].kind>>
          = <<"enter", "enter", "leave", "leave">>
     /\ parent[ds[2]] = ds[1]
     /\ leaveEvent[ds[2]] = ds[3]

\* The events that were not part of the tree when the pass over the pending
\* list reached deferred event d: d itself, the events deferred after it
\* and everything inserted in later batches.
NotYetAt(d) ==
  {j \in 1..Len(events) :
     \/ events[j].batch > events[d].batch
     \/ events[j].batch = events[d].batch /\ events[j].deferred /\ j >= d}

\* The scope the lookup by time gave for deferred enter d.
LookupAt(d) == FindEnclosingScope(St, events[d].time, NotYetAt(d))

\* C16: in the pass over the pending list the scope of a deferred enter
\* becomes a child of the scope the lookup by its time finds, and gets no
\* parent when the lookup finds none; the cursor of the pass is never the
\* reason for a parent (a deferred enter right after a deferred enter X is
\* X's child only if the lookup gives X); either way the cursor becomes the
\* new scope, so a deferred leaf or leave that follows is associated with it.
C16_DeferredEnterParentByLookup ==
  \A d \in 1..Len(events) :
    (Drained(d) /\ events[d].kind = "enter") =>
      /\ parent[d] = LookupAt(d)
      /\ \A x \in 1..Len(events) :
           Count(children[x], d) = IF x = LookupAt(d) THEN 1 ELSE 0
      /\ events[d].scope = d
      /\ (/\ d < Len(events)
          /\ events[d + 1].batch = events[d].batch
          /\ events[d + 1].deferred
          /\ events[d + 1].kind # "enter") => events[d + 1].scope = d

\* One pass handled a deferred enter X that the lookup put below an open
\* scope A, then a deferred enter Y of an earlier time for which the lookup
\* found nothing: Y has no parent although the cursor was X.
C16_Witness ==
  /\ call.op = "endInserting"
  /\ \E x, y \in DeferredIds(batch) :
       /\ y = x + 1
       /\ events[x].kind = "enter" /\ events[y].kind = "enter"
       /\ parent[x] # Null /\ ~events[parent[x]].deferred
       /\ parent[y] = Null

RECURSIVE RootOf(_)
RootOf(c) == IF parentContext[c] = Null THEN c ELSE RootOf(parentContext[c])

\* Context c and the contexts above it.
RECURSIVE SelfAndAncestors(_)
SelfAndAncestors(c) ==
  IF parentContext[c] = Null THEN {c}
  ELSE {c} \cup SelfAndAncestors(parentContext[c])

\* The positions in the effects of the most recent call at which
\* repaintInternal ran on context c.
PaintedAt(c) ==
  {i \in 1..Len(paintLog) : paintLog[i] = <<"repaintInternal", c>>}

\* C18: in every repaint of a tree in which the root was painted and its
\* repaintInternal did not prevent the painting of children, every context
\* with a parent, at any depth, has repaintInternal called, after its
\* parent's.
C18_ChildrenRepaintedAfterParent ==
  \A r \in Contexts :
    (PaintedAt(r) # {} /\ parentContext[r] = Null /\ ~pcall.prevent) =>
      \A c \in Contexts :
        (parentContext[c] # Null /\ RootOf(c) = r) =>
          \E i \in PaintedAt(parentContext[c]), j \in PaintedAt(c) : i < j

\* C19: a context whose ready flag is false is not drawn, and neither are
\* the contexts below it: repaintInternal only runs on a context that is
\* ready and has only ready contexts above it.
C19_NotReadyNotDrawn ==
  \A c \in Contexts :
    PaintedAt(c) # {} => \A a \in SelfAndAncestors(c) : ready[a]

\* C20: repaint requests are coalesced at the root.  Only a root's
\* repaintPending is ever true, and it is true exactly while one callback
\* for that root is scheduled and has not run (never two); the callback
\* clears the flag and repaints the root once; a request, on any context of
\* the tree, leaves the flag set and schedules a callback exactly when none
\* was pending.
C20_RequestsCoalescedAtRoot ==
  [][/\ \A c \in Contexts' :
          /\ parentContext'[c] # Null => ~repaintPending'[c]
          /\ Count(frameQueue', c) = IF repaintPending'[c] THEN 1 ELSE 0
     /\ (pcall'.op = "frame" /\ UNCHANGED zoneVars) =>
          /\ frameQueue' = Tail(frameQueue)
          /\ repaintPending[pcall'.ctx] /\ ~repaintPending'[pcall'.ctx]
          /\ Count(paintLog', <<"repaint", pcall'.ctx>>) = 1
          /\ Count(paintLog', <<"repaintInternal", pcall'.ctx>>) <= 1
     /\ (/\ pcall'.op \in {"requestRepaint", "setReady(true)"}
         /\ UNCHANGED zoneVars) =>
          LET r == RootOf(pcall'.ctx) IN
          /\ repaintPending'[r]
          /\ frameQueue' = IF repaintPending[r] THEN frameQueue
                           ELSE Append(frameQueue, r)
          /\ paintLog' = IF repaintPending[r] THEN <<>>
                         ELSE << <<"deferToNextFrame", r>> >>]_vars

\* A request on a child context while the root's callback is still
\* outstanding: nothing was scheduled.
C20_Witness ==
  /\ pcall.op = "requestRepaint"
  /\ parentContext[pcall.ctx] # Null
  /\ paintLog = <<>>
  /\ repaintPending[RootOf(pcall.ctx)]
  /\ frameQueue = <<RootOf(pcall.ctx)>>

====
